---- MODULE Spec2Model ----
(***************************************************************************)
(* State-machine model of the transcript service in src/app.py: the        *)
(* POST /api/transcript handler get_transcript and the helpers it calls.   *)
(* One behaviour is one request.  A step is one collaborator call (or one  *)
(* in-memory decision) of the handler together with everything the code    *)
(* does up to the next call; the outcome of every collaborator call is     *)
(* drawn from a small set with \E.                                         *)
(*                                                                         *)
(* Conventions.  A Python str that the code inspects character by          *)
(* character (url, video_id) is a sequence of one-character strings; the   *)
(* absent value None and the empty string are both <<>>, which is sound    *)
(* because the code only ever tests these fields for truthiness.  A        *)
(* language tag is a TLA+ string with "" for None.  An optional object is  *)
(* <<>> (None) or <<x>>.  Times are whole seconds.                         *)
(***************************************************************************)
EXTENDS Integers, Sequences, FiniteSets, TLC

VARIABLES
    req,          \* the TranscriptReq body and the x-api-key header
    env,          \* process environment: whether YT_COOKIES_B64 is set
    pc,           \* position of the handler
    vid,          \* get_transcript: vid
    last_error,   \* get_transcript: last_error
    info,         \* fetch_subs_with_ytdlp / get_audio_url_with_ytdlp: info
    transcript,   \* get_transcript: transcript (discovery mode), with source/translated
    lang_i,       \* get_transcript: position of the direct-mode loop over langs
    audio_url,    \* get_transcript: audio_url
    temp_path,    \* get_transcript: temp_path
    files,        \* files present on local storage
    calls,        \* history: collaborator calls made so far, in order
    seen,         \* history: what the platform manifest held, once it was fetched
    response      \* the HTTP response, <<>> until the handler ends

vars == <<req, env, pc, vid, last_error, info, transcript, lang_i, audio_url,
          temp_path, files, calls, seen, response>>

-----------------------------------------------------------------------------
(* Sequences helpers *)

Range(s) == {s[i] : i \in 1..Len(s)}

RECURSIVE SumSeq(_)
SumSeq(s) == IF s = <<>> THEN 0 ELSE Head(s) + SumSeq(Tail(s))

MaxOf(S) == CHOOSE x \in S : \A y \in S : y <= x

\* Python `a or b` on str values
Or(a, b) == IF a # <<>> THEN a ELSE b
OrStr(a, b) == IF a # "" THEN a ELSE b

-----------------------------------------------------------------------------
(* Config *)

EXPECTED_API_KEY == "secret"

\* the {11} of YID_RE and of the fullmatch in extract_video_id
IdLen == 11

Lower == {"a","b","c","d","e","f","g","h","i","j","k","l","m",
          "n","o","p","q","r","s","t","u","v","w","x","y","z"}
Upper == {"A","B","C","D","E","F","G","H","I","J","K","L","M",
          "N","O","P","Q","R","S","T","U","V","W","X","Y","Z"}
Digit == {"0","1","2","3","4","5","6","7","8","9"}
\* the character class [A-Za-z0-9_-]
IdChars == Lower \cup Upper \cup Digit \cup {"_", "-"}

\* the alternatives (?:v=|youtu\.be/|shorts/) of YID_RE, in order
YidPrefixes == << <<"v","=">>,
                  <<"y","o","u","t","u",".","b","e","/">>,
                  <<"s","h","o","r","t","s","/">> >>

-----------------------------------------------------------------------------
(* Helpers *)

\* faulty variant of ensure_key: only a missing header is rejected
ensure_key_raises_OnlyMissing(header_key) == header_key = ""

\* ensure_key: TRUE when it raises HTTPException(401)
ensure_key_raises(header_key) == header_key # EXPECTED_API_KEY

IsIdAt(s, i) ==
    /\ i + IdLen - 1 <= Len(s)
    /\ \A k \in i..(i + IdLen - 1) : s[k] \in IdChars

PrefixAt(s, i, p) ==
    /\ i + Len(p) - 1 <= Len(s)
    /\ \A k \in 1..Len(p) : s[i + k - 1] = p[k]

\* YID_RE matches at position i with alternative a
YidMatchAt(s, i, a) == PrefixAt(s, i, YidPrefixes[a]) /\ IsIdAt(s, i + Len(YidPrefixes[a]))

\* extract_video_id: <<>> models None
extract_video_id(url_or_id) ==
    IF url_or_id = <<>> THEN <<>>
    ELSE IF Len(url_or_id) = IdLen /\ IsIdAt(url_or_id, 1) THEN url_or_id
    ELSE LET hits == {i \in 1..Len(url_or_id) :
                        \E a \in 1..Len(YidPrefixes) : YidMatchAt(url_or_id, i, a)}
         IN IF hits = {} THEN <<>>
            ELSE LET i == CHOOSE h \in hits : \A g \in hits : h <= g
                     a == CHOOSE b \in 1..Len(YidPrefixes) :
                            /\ YidMatchAt(url_or_id, i, b)
                            /\ \A c \in 1..(b - 1) : ~YidMatchAt(url_or_id, i, c)
                     st == i + Len(YidPrefixes[a])
                 IN SubSeq(url_or_id, st, st + IdLen - 1)

\* to_seconds over a timestamp already split at ":" into <<h, m, s>>
to_seconds(ts) == ts[1] * 3600 + ts[2] * 60 + ts[3]

\* str.strip() on a sequence of characters (" " is the only whitespace used)
RECURSIVE LStrip(_)
LStrip(t) == IF t # <<>> /\ Head(t) = " " THEN LStrip(Tail(t)) ELSE t

RECURSIVE RStrip(_)
RStrip(t) == IF t # <<>> /\ t[Len(t)] = " " THEN RStrip(SubSeq(t, 1, Len(t) - 1)) ELSE t

Strip(t) == RStrip(LStrip(t))

\* len(text.split()): the number of maximal runs of non-whitespace
SplitLen(t) ==
    Cardinality({i \in 1..Len(t) : t[i] # " " /\ (i = 1 \/ t[i - 1] = " ")})

Max0(a, b) == IF a >= b THEN a ELSE b

\* vtt_to_segments over the cues webvtt.read_buffer yields
vtt_to_segments(cues) ==
    [i \in 1..Len(cues) |->
        LET start == to_seconds(cues[i].start)
            end == to_seconds(cues[i].end)
        IN [start |-> start,
            duration |-> Max0(0, end - start),
            text |-> Strip(cues[i].text)]]


-----------------------------------------------------------------------------
(* Inputs: the requests and the collaborators' answers *)

IdA == <<"d","Q","w","4","w","9","W","g","X","c","Q">>
IdB == <<"a","b","c","d","e","f","g","h","i","_","-">>
\* a truthy video_id that is no VideoId
ShortId == <<"a","b","c">>
UrlA == <<"y","o","u","t","u",".","b","e","/">> \o IdA
UrlBad == <<"v","=","x","y","z">>

Keys == {EXPECTED_API_KEY, "wrong", ""}
Urls == {<<>>, UrlA, UrlBad}
VideoIds == {<<>>, IdB, ShortId}
ReqLangs == {"", "fr"}
TranslateTos == {"", "fr"}

Requests ==
    [x_api_key : Keys, url : Urls, video_id : VideoIds, lang : ReqLangs,
     translate_to : TranslateTos, allow_auto_captions : BOOLEAN]

\* the most (bucket, language) entries a caption manifest holds
MaxEntries == 2

ManifestLangs == {"en", "fr"}

TrackVtt == [url |-> TRUE, ext |-> "vtt"]
TrackOther == [url |-> TRUE, ext |-> "json3"]
TrackNoUrl == [url |-> FALSE, ext |-> "vtt"]

\* the track lists a manifest gives for one language
TrackLists == {<<>>, <<TrackVtt>>, <<TrackOther>>, <<TrackNoUrl>>, <<TrackNoUrl, TrackVtt>>}

ManifestEntries == [lang : ManifestLangs, tracks : TrackLists]

\* a bucket: language -> tracks, in the mapping's iteration order
Buckets ==
    UNION {{b \in [1..n -> ManifestEntries] :
               \A i, j \in 1..n : i # j => b[i].lang # b[j].lang} : n \in 0..MaxEntries}

Manifests ==
    {m \in [subtitles : Buckets, automatic_captions : Buckets] :
        Len(m.subtitles) + Len(m.automatic_captions) <= MaxEntries}

\* a cue: start and end as <<hours, minutes, seconds>>, and its text
Cue(s, e, t) == [start |-> s, end |-> e, text |-> t]

\* what webvtt.read_buffer yields for a track payload that parses
VttPayloads ==
    {<<>>,
     <<Cue(<<0, 0, 0>>, <<0, 0, 5>>, <<"a"," ","b">>)>>,
     <<Cue(<<0, 0, 0>>, <<0, 0, 5>>, <<"a">>), Cue(<<0, 0, 10>>, <<0, 0, 12>>, <<" ","b"," ">>)>>,
     <<Cue(<<0, 1, 10>>, <<0, 1, 0>>, <<>>)>>}

\* r.text of a track payload that is not timed-text markup
RawTexts == {<<>>, <<"a"," ","b">>}

-----------------------------------------------------------------------------
(* State *)

NoError == <<"none">>

\* one collaborator call: the operation, the stage that made it (0 platform
\* subtitles, 1 captions API, 2 audio transcription), the video reference it was
\* given, the exception it raised ("" when none) and the kind of transcript it
\* served ("" when it served none)
Call(op, stage, target, err, kind) ==
    [op |-> op, stage |-> stage, target |-> target, err |-> err, kind |-> kind]

CookieFile(n) == [kind |-> "cookies", n |-> n]
AudioFile == [kind |-> "audio", n |-> 0]

HttpError(status, msg, le, we) ==
    [status |-> status,
     detail |-> [msg |-> msg, last_error |-> le, whisper_error |-> we],
     result |-> <<>>]

Ok(result) ==
    [status |-> 200,
     detail |-> [msg |-> "", last_error |-> <<>>, whisper_error |-> <<>>],
     result |-> <<result>>]

Init ==
    /\ req \in Requests
    /\ env \in [YT_COOKIES_B64 : BOOLEAN]
    /\ pc = "ensure_key"
    /\ vid = <<>>
    /\ last_error = NoError
    /\ info = <<>>
    /\ transcript = <<>>
    /\ lang_i = 0
    /\ audio_url = ""
    /\ temp_path = <<>>
    /\ files = {}
    /\ calls = <<>>
    /\ seen = <<>>
    /\ response = <<>>

\* the states of the orchestrator's state machine
State ==
    CASE pc \in {"ensure_key", "resolve"} -> "START"
      [] pc \in {"ytdlp_extract", "ytdlp_download"} -> "TRY_PLATFORM_SUBTITLES"
      [] pc \in {"yta_start", "yta_translate", "yta_fetch", "yta_direct", "yta_direct_any"}
           -> "TRY_CAPTIONS_API"
      [] pc \in {"audio_url", "audio_download", "whisper"} -> "TRY_AUDIO_TRANSCRIPTION"
      [] pc = "done" /\ response # <<>> /\ response.status = 200 -> "SUCCESS"
      [] OTHER -> "FAILURE"


-----------------------------------------------------------------------------
(* get_transcript: authentication and the video reference *)

\* line 270: ensure_key(x_api_key)
EnsureKey ==
    /\ pc = "ensure_key"
    /\ IF ensure_key_raises(req.x_api_key)
       THEN /\ response' = HttpError(401, "Invalid API key", <<>>, <<>>)
            /\ pc' = "done"
       ELSE /\ pc' = "resolve"
            /\ UNCHANGED response
    /\ UNCHANGED <<req, env, vid, last_error, info, transcript, lang_i, audio_url,
                   temp_path, files, calls, seen>>

\* line 272: vid = req.video_id or extract_video_id(req.url or "")
resolve_vid(r) == Or(r.video_id, extract_video_id(Or(r.url, <<>>)))

\* lines 272-276
ResolveVideoId ==
    /\ pc = "resolve"
    /\ vid' = resolve_vid(req)
    /\ IF vid' = <<>>
       THEN /\ response' = HttpError(400, "Missing or invalid video id/url", <<>>, <<>>)
            /\ pc' = "done"
       ELSE /\ pc' = "ytdlp_extract"
            /\ UNCHANGED response
    /\ last_error' = NoError
    /\ UNCHANGED <<req, env, info, transcript, lang_i, audio_url, temp_path, files, calls,
                   seen>>

-----------------------------------------------------------------------------
(* Stage 0: platform subtitles, fetch_subs_with_ytdlp *)

\* get_cookiefile_path_from_env via ydl_with_optional_cookies_opts: the files on
\* disk after the call (NamedTemporaryFile(delete=False), never removed)
with_cookiefile(fs) ==
    IF env.YT_COOKIES_B64
    THEN fs \cup {CookieFile(Cardinality({f \in fs : f.kind = "cookies"}) + 1)}
    ELSE fs

\* the languages both loops of fetch_subs_with_ytdlp try first
EnglishVariants == <<"en", "en-US", "en-GB">>

\* faulty variant of the bucket order: machine-generated tracks first
BucketOrder_AutoFirst == <<"automatic_captions", "subtitles">>

\* the buckets fetch_subs_with_ytdlp walks, in order
BucketOrder == <<"subtitles", "automatic_captions">>

RECURSIVE Flatten(_)
Flatten(ss) == IF ss = <<>> THEN <<>> ELSE Head(ss) \o Flatten(Tail(ss))

\* submap.get(lang): the tracks of a language, <<>> when absent
SubmapGet(submap, lang) ==
    IF \E i \in 1..Len(submap) : submap[i].lang = lang
    THEN submap[CHOOSE i \in 1..Len(submap) : submap[i].lang = lang].tracks
    ELSE <<>>

TracksOf(bucket, lang, tracks) ==
    [i \in 1..Len(tracks) |-> [bucket |-> bucket, lang |-> lang, track |-> tracks[i]]]

\* the tracks one bucket's two loops visit, in order (lines 121-129, 139-144)
BucketVisits(bucket, submap) ==
    Flatten([k \in 1..Len(EnglishVariants) |->
                TracksOf(bucket, EnglishVariants[k], SubmapGet(submap, EnglishVariants[k]))])
    \o Flatten([k \in 1..Len(submap) |-> TracksOf(bucket, submap[k].lang, submap[k].tracks)])

\* the tracks fetch_subs_with_ytdlp visits, in order (line 117)
TrackVisits(m) ==
    Flatten([b \in 1..Len(BucketOrder) |-> BucketVisits(BucketOrder[b], m[BucketOrder[b]])])

\* the track fetch_subs_with_ytdlp downloads: the first visited one with a url;
\* <<>> when the loops end without one (line 153)
SelectTrack(m) ==
    LET v == TrackVisits(m)
        hits == {i \in 1..Len(v) : v[i].track.url}
    IN IF hits = {} THEN <<>> ELSE <<v[CHOOSE i \in hits : \A j \in hits : i <= j]>>

\* lines 136, 151
BucketSource(bucket) == IF bucket = "subtitles" THEN "human_captions" ELSE "auto_captions"

\* lines 135, 150
RawSegment(text) == <<[start |-> 0, duration |-> 0, text |-> text]>>

\* lines 282, 362
WordCount(segs) == SumSeq([i \in 1..Len(segs) |-> SplitLen(segs[i].text)])

\* faulty variant of ApproxRuntime: the latest start, durations left out
ApproxRuntime_LatestStart(segs) ==
    IF segs = <<>> THEN 0 ELSE MaxOf({segs[i].start : i \in 1..Len(segs)})

\* lines 283, 363
ApproxRuntime(segs) ==
    IF segs = <<>> THEN 0 ELSE MaxOf({segs[i].start + segs[i].duration : i \in 1..Len(segs)})

\* lines 284-292
SubsResult(segs, src, lang_found) ==
    [video_id |-> vid,
     source |-> src,
     language |-> OrStr(lang_found, OrStr(req.lang, "unknown")),
     translated |-> FALSE,
     segments |-> segs,
     word_count |-> WordCount(segs),
     approx_runtime_seconds |-> ApproxRuntime(segs)]

\* faulty variant of lines 293-294: after a failed download the stage tries again
SubsMiss_Retry(etype) ==
    /\ last_error' = <<"yt-dlp subtitles", etype>>
    /\ pc' = IF info = <<>> THEN "yta_start" ELSE "ytdlp_download"
    /\ UNCHANGED <<info, response>>

\* faulty variant of lines 293-294: the error is surfaced instead of recorded
SubsMiss_Abort(etype) ==
    /\ response' = HttpError(500, etype, <<>>, <<>>)
    /\ pc' = "done"
    /\ info' = <<>>
    /\ UNCHANGED last_error

\* lines 293-294: the platform stage raised; the handler goes on to the captions API
SubsMiss(etype) ==
    /\ last_error' = <<"yt-dlp subtitles", etype>>
    /\ pc' = "yta_start"
    /\ info' = <<>>
    /\ UNCHANGED response

\* faulty variant of lines 280-292: the 'if segs' test of line 281 is left out
SubsReturn_EmptyResult(segs, src, lang_found) ==
    /\ info' = <<>>
    /\ UNCHANGED last_error
    /\ response' = Ok(SubsResult(segs, src, lang_found))
    /\ pc' = "done"

\* faulty variant of lines 280-292: the result is built but the handler does not return
SubsReturn_NoReturn(segs, src, lang_found) ==
    /\ info' = <<>>
    /\ UNCHANGED last_error
    /\ pc' = "yta_start"
    /\ response' = IF segs # <<>> THEN Ok(SubsResult(segs, src, lang_found)) ELSE response

\* lines 280-292: fetch_subs_with_ytdlp returned (segs, src, lang_found)
SubsReturn(segs, src, lang_found) ==
    /\ info' = <<>>
    /\ UNCHANGED last_error
    /\ IF segs # <<>>
       THEN /\ response' = Ok(SubsResult(segs, src, lang_found))
            /\ pc' = "done"
       ELSE /\ pc' = "yta_start"
            /\ UNCHANGED response

HasLocator(submap) ==
    \E i \in 1..Len(submap) : \E k \in 1..Len(submap[i].tracks) : submap[i].tracks[k].url

\* lines 114-115: the manifest lookup
SubsExtractInfo ==
    /\ pc = "ytdlp_extract"
    /\ files' = with_cookiefile(files)
    /\ \/ \E e \in {"DownloadError"} :
            /\ calls' = Append(calls, Call("extract_info", 0, Or(req.url, vid), e, ""))
            /\ SubsMiss(e)
            /\ UNCHANGED seen
       \/ \E m \in Manifests :
            /\ info' = <<m>>
            /\ seen' = <<[human |-> HasLocator(m.subtitles),
                          auto |-> HasLocator(m.automatic_captions)]>>
            /\ calls' = Append(calls, Call("extract_info", 0, Or(req.url, vid), "", ""))
            /\ pc' = "ytdlp_download"
            /\ UNCHANGED <<last_error, response>>
       \/ \* extract_info hands back None: line 118 raises on info.get
          /\ calls' = Append(calls, Call("extract_info", 0, Or(req.url, vid), "", ""))
          /\ SubsMiss("AttributeError")
          /\ UNCHANGED seen
    /\ UNCHANGED <<req, env, vid, transcript, lang_i, audio_url, temp_path>>

\* lines 117-153 and 281-294: select a track, download it, normalize, shape the result
SubsDownload ==
    /\ pc = "ytdlp_download"
    /\ LET sel == SelectTrack(info[1]) IN
       IF sel = <<>>
       THEN /\ SubsReturn(<<>>, "", "")
            /\ UNCHANGED calls
       ELSE LET t == sel[1] IN
            \/ \E e \in {"ConnectionError", "HTTPError"} :
                 /\ calls' = Append(calls, Call("track_get", 0, <<>>, e, ""))
                 /\ SubsMiss(e)
            \/ /\ t.track.ext = "vtt"
               /\ calls' = Append(calls, Call("track_get", 0, <<>>, "", ""))
               /\ \/ \E cues \in VttPayloads :
                       SubsReturn(vtt_to_segments(cues), BucketSource(t.bucket), t.lang)
                  \/ SubsMiss("MalformedFileError")
            \/ /\ t.track.ext # "vtt"
               /\ calls' = Append(calls, Call("track_get", 0, <<>>, "", ""))
               /\ \E text \in RawTexts :
                       SubsReturn(RawSegment(text), BucketSource(t.bucket), t.lang)
    /\ UNCHANGED <<req, env, vid, transcript, lang_i, audio_url, temp_path, files, seen>>


-----------------------------------------------------------------------------
(* Stage 1: the captions API, youtube-transcript-api *)

\* lines 297-299
Langs(r) == (IF r.lang # "" THEN <<r.lang>> ELSE <<>>) \o EnglishVariants

YtaLangs == {"en", "fr"}

KeyLists ==
    UNION {{k \in [1..n -> YtaLangs] : \A i, j \in 1..n : i # j => k[i] # k[j]} :
              n \in 0..MaxEntries}

\* what list_transcripts answers: the language codes of the manually created and of
\* the generated transcripts, each in the mapping's iteration order
TLists ==
    {tl \in [manual : KeyLists, generated : KeyLists] :
        Len(tl.manual) + Len(tl.generated) <= MaxEntries}

Item(st, du, tx) == [start |-> st, duration |-> du, text |-> tx]

\* the item lists a fetch answers; a key an item lacks is <<>>, its value v is <<v>>
ItemLists ==
    {<<>>,
     <<Item(<<0>>, <<5>>, << <<"a"," ","b">> >>)>>,
     <<Item(<<0>>, <<5>>, << <<"a">> >>), Item(<<10>>, <<2>>, << <<"b">> >>)>>,
     <<Item(<<3>>, <<>>, <<>>)>>}

\* dict.get(key, default)
Get(opt, default) == IF opt = <<>> THEN default ELSE opt[1]

\* line 361
ItemsToSegments(items) ==
    [i \in 1..Len(items) |->
        [start |-> Get(items[i].start, 0),
         duration |-> Get(items[i].duration, 0),
         text |-> Get(items[i].text, <<>>)]]

\* find_manually_created_transcript / find_generated_transcript over the codes given:
\* the transcript of the first code the mapping holds, <<>> when it raises
FindTranscript(keys, codes, generated) ==
    LET hits == {i \in 1..Len(codes) : codes[i] \in Range(keys)}
    IN IF hits = {} THEN <<>>
       ELSE <<[language_code |-> codes[CHOOSE i \in hits : \A j \in hits : i <= j],
               is_generated |-> generated]>>

\* the loops of lines 306-310 and 313-317: one find per code, the first hit wins
FindFirst(keys, codes, generated) ==
    LET hits == {i \in 1..Len(codes) : FindTranscript(keys, <<codes[i]>>, generated) # <<>>}
    IN IF hits = {} THEN <<>>
       ELSE FindTranscript(keys, <<codes[CHOOSE i \in hits : \A j \in hits : i <= j]>>, generated)

\* faulty variant of SelectTranscript: the any-language steps leave the source
\* as the preferred-language steps set it (lines 321 and 326 left out)
SelectTranscript_StaleSource(tl, langs, allow_auto) ==
    LET t1 == FindFirst(tl.manual, langs, FALSE)
        auto2 == t1 = <<>> /\ allow_auto
        t2 == IF auto2 THEN FindFirst(tl.generated, langs, TRUE) ELSE t1
        s2 == IF auto2 THEN "auto_captions" ELSE "human_captions"
        anyManual == FindTranscript(tl.manual, tl.manual, FALSE)
        anyGenerated == FindTranscript(tl.generated, tl.generated, TRUE)
    IN IF t2 # <<>> THEN [transcript |-> t2, source |-> s2]
       ELSE IF anyManual # <<>> THEN [transcript |-> anyManual, source |-> s2]
       ELSE IF allow_auto /\ anyGenerated # <<>>
            THEN [transcript |-> anyGenerated, source |-> s2]
       ELSE [transcript |-> <<>>, source |-> s2]

\* lines 304-328: the transcript selected and the source reported for it
SelectTranscript(tl, langs, allow_auto) ==
    LET t1 == FindFirst(tl.manual, langs, FALSE)
        s1 == "human_captions"
        auto2 == t1 = <<>> /\ allow_auto
        t2 == IF auto2 THEN FindFirst(tl.generated, langs, TRUE) ELSE t1
        s2 == IF auto2 THEN "auto_captions" ELSE s1
        anyManual == FindTranscript(tl.manual, tl.manual, FALSE)
        anyGenerated == FindTranscript(tl.generated, tl.generated, TRUE)
    IN IF t2 # <<>> THEN [transcript |-> t2, source |-> s2]
       ELSE IF anyManual # <<>> THEN [transcript |-> anyManual, source |-> "human_captions"]
       ELSE IF allow_auto /\ anyGenerated # <<>>
            THEN [transcript |-> anyGenerated, source |-> "auto_captions"]
       ELSE [transcript |-> <<>>, source |-> s2]

\* faulty variant of WantsTranslation: the language of the selected transcript is not compared
WantsTranslation_WheneverAsked(r, t) == r.translate_to # ""

\* line 333
WantsTranslation(r, t) == r.translate_to # "" /\ r.translate_to # t.language_code

\* lines 365-373
YtaResult(segments, source, language, translated) ==
    [video_id |-> vid,
     source |-> source,
     language |-> OrStr(language, OrStr(req.lang, "unknown")),
     translated |-> translated,
     segments |-> segments,
     word_count |-> WordCount(segments),
     approx_runtime_seconds |-> ApproxRuntime(segments)]

\* faulty variant of YtaMiss: a failed captions stage is started over
YtaMiss_Restart(etype) ==
    /\ last_error' = <<"yta fallback", etype>>
    /\ pc' = "yta_start"
    /\ transcript' = <<>>
    /\ lang_i' = 0
    /\ UNCHANGED response

\* lines 375-376: the captions stage raised; the handler goes on to the audio fallback
YtaMiss(etype) ==
    /\ last_error' = <<"yta fallback", etype>>
    /\ pc' = "audio_url"
    /\ transcript' = <<>>
    /\ lang_i' = 0
    /\ UNCHANGED response

\* lines 361-373
YtaReturn(items, source, language, translated) ==
    /\ response' = Ok(YtaResult(ItemsToSegments(items), source, language, translated))
    /\ pc' = "done"
    /\ transcript' = <<>>
    /\ lang_i' = 0
    /\ UNCHANGED last_error

\* lines 302-338, discovery mode: list, select, translate
YtaListTranscripts ==
    /\ pc = "yta_start"
    /\ \/ \E e \in {"VideoUnavailable", "TranscriptsDisabled"} :
            /\ calls' = Append(calls, Call("list_transcripts", 1, vid, e, ""))
            /\ YtaMiss(e)
       \/ \E tl \in TLists :
            /\ calls' = Append(calls, Call("list_transcripts", 1, vid, "", ""))
            /\ LET sel == SelectTranscript(tl, Langs(req), req.allow_auto_captions) IN
               IF sel.transcript = <<>>
               THEN YtaMiss("NoTranscriptFound")
               ELSE LET t == sel.transcript[1] IN
                    /\ transcript' = <<[language_code |-> t.language_code,
                                        is_generated |-> t.is_generated,
                                        source |-> sel.source,
                                        translated |-> FALSE]>>
                    /\ pc' = IF WantsTranslation(req, t) THEN "yta_translate" ELSE "yta_fetch"
                    /\ UNCHANGED <<last_error, lang_i, response>>
    /\ UNCHANGED <<req, env, vid, info, audio_url, temp_path, files, seen>>

\* lines 332-337, discovery mode: translate the selected transcript; a failure is swallowed
YtaTranslate ==
    /\ pc = "yta_translate"
    /\ LET t == transcript[1] IN
       \/ /\ calls' = Append(calls, Call("translate", 1, vid, "", ""))
          /\ transcript' = <<[t EXCEPT !.language_code = req.translate_to,
                                       !.translated = TRUE]>>
       \/ \E e \in {"NotTranslatable", "TranslationLanguageNotAvailable"} :
            /\ calls' = Append(calls, Call("translate", 1, vid, e, ""))
            /\ transcript' = <<[t EXCEPT !.translated = FALSE]>>
    /\ pc' = "yta_fetch"
    /\ UNCHANGED <<req, env, vid, last_error, info, lang_i, audio_url, temp_path, files,
                   seen, response>>

TranscriptKind(t) == IF t.is_generated THEN "generated" ELSE "manual"

\* lines 339-340 and 361-376, discovery mode: fetch the selected transcript
YtaFetch ==
    /\ pc = "yta_fetch"
    /\ LET t == transcript[1] IN
       \/ \E e \in {"CouldNotRetrieveTranscript"} :
            /\ calls' = Append(calls, Call("fetch", 1, vid, e, ""))
            /\ YtaMiss(e)
       \/ \E items \in ItemLists :
            /\ calls' = Append(calls, Call("fetch", 1, vid, "", TranscriptKind(t)))
            /\ YtaReturn(items, t.source, t.language_code, t.translated)
       \/ \* fetch hands back items without .get: line 361 raises, no transcript is served
          /\ calls' = Append(calls, Call("fetch", 1, vid, "", ""))
          /\ YtaMiss("AttributeError")
    /\ UNCHANGED <<req, env, vid, info, audio_url, temp_path, files, seen>>

\* lines 342-351 and 357-358, direct mode: one get_transcript per language
YtaGetTranscript ==
    /\ pc \in {"yta_start", "yta_direct"}
    /\ LET i == IF pc = "yta_start" THEN 1 ELSE lang_i
           code == Langs(req)[i]
       IN
       \/ \E items \in ItemLists, kind \in {"manual", "generated"} :
            /\ calls' = Append(calls, Call("get_transcript", 1, vid, "", kind))
            /\ YtaReturn(items, "unknown", code, FALSE)
       \/ /\ calls' = Append(calls, Call("get_transcript", 1, vid, "NoTranscriptFound", ""))
          /\ IF i < Len(Langs(req))
             THEN /\ lang_i' = i + 1
                  /\ pc' = "yta_direct"
                  /\ UNCHANGED <<last_error, transcript, response>>
             ELSE IF req.allow_auto_captions
             THEN /\ pc' = "yta_direct_any"
                  /\ lang_i' = 0
                  /\ UNCHANGED <<last_error, transcript, response>>
             ELSE YtaMiss("NoTranscriptFound")
       \/ /\ calls' = Append(calls, Call("get_transcript", 1, vid, "TranscriptsDisabled", ""))
          /\ YtaMiss("HTTPException")
       \/ /\ calls' = Append(calls, Call("get_transcript", 1, vid, "VideoUnavailable", ""))
          /\ YtaMiss("VideoUnavailable")
    /\ UNCHANGED <<req, env, vid, info, audio_url, temp_path, files, seen>>

\* lines 352-358, direct mode: the fetch with no language constraint
YtaGetTranscriptAny ==
    /\ pc = "yta_direct_any"
    /\ \/ \E items \in ItemLists, kind \in {"manual", "generated"} :
            /\ calls' = Append(calls, Call("get_transcript", 1, vid, "", kind))
            /\ YtaReturn(items, "unknown", req.lang, FALSE)
       \/ \E e \in {"NoTranscriptFound", "VideoUnavailable"} :
            /\ calls' = Append(calls, Call("get_transcript", 1, vid, e, ""))
            /\ YtaMiss("NoTranscriptFound")
    /\ UNCHANGED <<req, env, vid, info, audio_url, temp_path, files, seen>>


-----------------------------------------------------------------------------
(* Stage 2: audio transcription *)

\* a media format; "" models a key that is absent or None
Format(vcodec, acodec, abr, url) == [vcodec |-> vcodec, acodec |-> acodec, abr |-> abr, url |-> url]

\* what the media-format lookup answers: info["formats"] and info["url"]
MediaInfos ==
    {[formats |-> <<>>, url |-> ""],
     [formats |-> <<>>, url |-> "generic"],
     [formats |-> <<Format("avc1", "mp4a", 128, "muxed"),
                    Format("none", "opus", 64, "audio64"),
                    Format("", "mp4a", 128, "audio128")>>, url |-> ""],
     [formats |-> <<Format("none", "opus", 64, "")>>, url |-> "generic"]}

\* select_best_audio_format: <<>> models None
select_best_audio_format(formats) ==
    LET audio_only == SelectSeq(formats,
                          LAMBDA f : f.vcodec \in {"", "none"} /\ f.acodec \notin {"", "none"})
        best == {i \in 1..Len(audio_only) :
                    /\ \A j \in 1..Len(audio_only) : audio_only[j].abr <= audio_only[i].abr
                    /\ \A j \in 1..(i - 1) : audio_only[j].abr < audio_only[i].abr}
    IN IF audio_only = <<>> THEN <<>> ELSE <<audio_only[CHOOSE i \in best : TRUE]>>

\* get_audio_url_with_ytdlp, lines 165-168: "" models None
get_audio_url(i) ==
    LET fmt == select_best_audio_format(i.formats)
    IN IF fmt # <<>> /\ fmt[1].url # "" THEN fmt[1].url ELSE i.url

\* lines 401-405: the aggregate failure
Fail404(etype) ==
    /\ response' = HttpError(404, "Transcript unavailable", last_error, <<etype>>)
    /\ pc' = "done"

\* lines 380-382: resolve the audio stream url
AudioUrl ==
    /\ pc = "audio_url"
    /\ files' = with_cookiefile(files)
    /\ \/ \E e \in {"DownloadError"} :
            /\ calls' = Append(calls, Call("extract_info", 2, Or(req.url, vid), e, ""))
            /\ Fail404(e)
            /\ UNCHANGED audio_url
       \/ \* extract_info hands back None: line 165 raises on info.get
          /\ calls' = Append(calls, Call("extract_info", 2, Or(req.url, vid), "", ""))
          /\ Fail404("AttributeError")
          /\ UNCHANGED audio_url
       \/ \E i \in MediaInfos :
            /\ calls' = Append(calls, Call("extract_info", 2, Or(req.url, vid), "", ""))
            /\ audio_url' = get_audio_url(i)
            /\ IF audio_url' = ""
               THEN Fail404("RuntimeError")
               ELSE pc' = "audio_download" /\ UNCHANGED response
    /\ UNCHANGED <<req, env, vid, last_error, info, transcript, lang_i, temp_path, seen>>

\* line 384, download_to_temp (lines 170-178)
DownloadToTemp ==
    /\ pc = "audio_download"
    /\ \/ \* requests.get or raise_for_status raises: no file was created
          \E e \in {"ConnectionError", "HTTPError"} :
            /\ calls' = Append(calls, Call("audio_get", 2, <<>>, e, ""))
            /\ Fail404(e)
            /\ UNCHANGED <<files, temp_path>>
       \/ \* the stream breaks after mkstemp: download_to_temp raises, temp_path is
          \* never bound and the handler's finally is not entered
          /\ calls' = Append(calls, Call("audio_get", 2, <<>>, "ChunkedEncodingError", ""))
          /\ files' = files \cup {AudioFile}
          /\ Fail404("ChunkedEncodingError")
          /\ UNCHANGED temp_path
       \/ /\ calls' = Append(calls, Call("audio_get", 2, <<>>, "", ""))
          /\ files' = files \cup {AudioFile}
          /\ temp_path' = <<AudioFile>>
          /\ pc' = "whisper"
          /\ UNCHANGED response
    /\ UNCHANGED <<req, env, vid, last_error, info, transcript, lang_i, audio_url, seen>>

\* lines 392-400
WhisperResult(text) ==
    [video_id |-> vid,
     source |-> "whisper_transcription",
     language |-> OrStr(req.lang, "unknown"),
     translated |-> FALSE,
     segments |-> RawSegment(text),
     word_count |-> SplitLen(text),
     approx_runtime_seconds |-> 0]

\* lines 385-400: transcribe, remove the temporary file, shape the result
Transcribe ==
    /\ pc = "whisper"
    /\ files' = files \ {temp_path[1]}
    /\ temp_path' = <<>>
    /\ \/ \E e \in {"APIError"} :
            /\ calls' = Append(calls, Call("transcriptions_create", 2, <<>>, e, ""))
            /\ Fail404(e)
       \/ \E text \in RawTexts :
            /\ calls' = Append(calls, Call("transcriptions_create", 2, <<>>, "", ""))
            /\ response' = Ok(WhisperResult(text))
            /\ pc' = "done"
    /\ UNCHANGED <<req, env, vid, last_error, info, transcript, lang_i, audio_url, seen>>

-----------------------------------------------------------------------------
(* The handler *)

Next ==
    \/ EnsureKey
    \/ ResolveVideoId
    \/ SubsExtractInfo
    \/ SubsDownload
    \/ YtaListTranscripts
    \/ YtaTranslate
    \/ YtaFetch
    \/ YtaGetTranscript
    \/ YtaGetTranscriptAny
    \/ AudioUrl
    \/ DownloadToTemp
    \/ Transcribe

Spec == Init /\ [][Next]_vars


-----------------------------------------------------------------------------
(* Vocabulary of the claims *)

Done == pc = "done"
Succeeded == response # <<>> /\ response.status = 200
Result == response.result[1]

CallsIn(log, stage) == {i \in 1..Len(log) : log[i].stage = stage}
CallsOf(stage) == CallsIn(calls, stage)
StagesAttempted == {calls[i].stage : i \in 1..Len(calls)}

\* the stage the handler is in, as a number; -1 outside the three stages
StageNo ==
    CASE State = "TRY_PLATFORM_SUBTITLES" -> 0
      [] State = "TRY_CAPTIONS_API" -> 1
      [] State = "TRY_AUDIO_TRANSCRIPTION" -> 2
      [] OTHER -> -1

\* the stage that produced the result of a successful response
ResultStage == calls[Len(calls)].stage

ManifestFetchFailed ==
    /\ calls # <<>>
    /\ calls[1].op = "extract_info" /\ calls[1].stage = 0 /\ calls[1].err # ""

\* the captions-API stage obtained the items of a manually created transcript
CaptionsServedHuman == \E i \in CallsOf(1) : calls[i].err = "" /\ calls[i].kind = "manual"

DiscoveryMode == \E i \in CallsOf(1) : calls[i].op = "list_transcripts"

-----------------------------------------------------------------------------
(* C1: once the captions-API stage has classified the video as unavailable  *)
(* (VideoUnavailable), the request is over with a 404 and the audio stage    *)
(* has made no call.                                                         *)
C1_TerminalShortCircuit ==
    (\E i \in CallsOf(1) : calls[i].err = "VideoUnavailable")
        => /\ Done
           /\ response.status = 404
           /\ CallsOf(2) = {}

(* C2: every step keeps the stage order platform subtitles, captions API,   *)
(* audio transcription: the calls of a stage form one run, a call is made by *)
(* the stage the handler is in, a stage is entered only from the stage       *)
(* before it, after that stage made its attempt and produced no response,    *)
(* and after a response nothing more is called.                              *)
C2_Transitions ==
    {<<"START", "TRY_PLATFORM_SUBTITLES">>, <<"START", "FAILURE">>,
     <<"TRY_PLATFORM_SUBTITLES", "TRY_CAPTIONS_API">>, <<"TRY_PLATFORM_SUBTITLES", "SUCCESS">>,
     <<"TRY_CAPTIONS_API", "TRY_AUDIO_TRANSCRIPTION">>, <<"TRY_CAPTIONS_API", "SUCCESS">>,
     <<"TRY_AUDIO_TRANSCRIPTION", "SUCCESS">>, <<"TRY_AUDIO_TRANSCRIPTION", "FAILURE">>}

C2_Step ==
    /\ State' # State => <<State, State'>> \in C2_Transitions
    /\ calls' # calls =>
          /\ response = <<>>
          /\ Len(calls') = Len(calls) + 1
          /\ SubSeq(calls', 1, Len(calls)) = calls
          /\ calls'[Len(calls')].stage = StageNo
          /\ \A i \in 1..Len(calls) : calls[i].stage <= StageNo
    /\ (StageNo' > StageNo /\ StageNo >= 0) =>
          /\ response' = <<>>
          /\ StageNo' = StageNo + 1
          /\ CallsIn(calls', StageNo) # {}

C2_StageOrder == [][C2_Step]_vars

C2_Witness ==
    /\ Done /\ Succeeded
    /\ Result.source = "whisper_transcription"
    /\ StagesAttempted = {0, 1, 2}

(* C3: a request with allow_auto_captions = false never gets a result with   *)
(* source "auto_captions".                                                   *)
C3_NoAutoWhenForbidden ==
    (Succeeded /\ ~req.allow_auto_captions) => Result.source # "auto_captions"

(* C4: when the request is over, no temporary audio file is on disk.         *)
C4_NoTempAudioLeft ==
    Done => AudioFile \notin files

(* C5: a 404 after the audio stage failed carries a note of the platform     *)
(* stage and a note of the captions-API stage, in that order, before the     *)
(* audio error.                                                              *)
C5_Trail == <<response.detail.last_error, <<"whisper">> \o response.detail.whisper_error>>

C5_FullTrail ==
    (Done /\ response.status = 404 /\ CallsOf(2) # {})
        => \E i, j \in 1..Len(C5_Trail) :
              /\ i < j /\ j < Len(C5_Trail)
              /\ C5_Trail[i][1] = "yt-dlp subtitles"
              /\ C5_Trail[j][1] = "yta fallback"

(* C6: a request whose token is missing or wrong makes no collaborator call  *)
(* and ends with 401.                                                        *)
C6_AuthFirst ==
    req.x_api_key # EXPECTED_API_KEY
        => /\ calls = <<>>
           /\ Done => response.status = 401

C6_Witness ==
    /\ Done
    /\ req.x_api_key = "wrong"
    /\ response.status = 401
    /\ calls = <<>>


(* The track choice section 4.2 of the specification describes, over the     *)
(* languages that have a track with a locator: preferred languages in the    *)
(* human bucket, preferred languages in the auto bucket if permitted, first  *)
(* language of the human bucket, first language of the auto bucket if        *)
(* permitted.  <<>> when it finds none.                                      *)
Present(submap, lang) ==
    \E i \in 1..Len(submap) :
        submap[i].lang = lang /\ \E k \in 1..Len(submap[i].tracks) : submap[i].tracks[k].url

FirstPreferred(submap, prefs) ==
    LET hits == {i \in 1..Len(prefs) : Present(submap, prefs[i])}
    IN IF hits = {} THEN "" ELSE prefs[CHOOSE i \in hits : \A j \in hits : i <= j]

FirstAvailable(submap) ==
    LET hits == {i \in 1..Len(submap) : Present(submap, submap[i].lang)}
    IN IF hits = {} THEN "" ELSE submap[CHOOSE i \in hits : \A j \in hits : i <= j].lang

FourStepChoice(m, prefs, allow) ==
    IF FirstPreferred(m.subtitles, prefs) # ""
    THEN <<"human_captions", FirstPreferred(m.subtitles, prefs)>>
    ELSE IF allow /\ FirstPreferred(m.automatic_captions, prefs) # ""
    THEN <<"auto_captions", FirstPreferred(m.automatic_captions, prefs)>>
    ELSE IF FirstAvailable(m.subtitles) # ""
    THEN <<"human_captions", FirstAvailable(m.subtitles)>>
    ELSE IF allow /\ FirstAvailable(m.automatic_captions) # ""
    THEN <<"auto_captions", FirstAvailable(m.automatic_captions)>>
    ELSE <<>>

(* C7: the track a platform-stage result comes from is the one the four-step *)
(* priority picks.  Stated for requests that permit auto captions and name   *)
(* no language, where the preferred languages are the English variants and   *)
(* every step of the priority applies.                                       *)
C7_FourStepPriority ==
    [][(pc = "ytdlp_download" /\ Succeeded' /\ req.allow_auto_captions /\ req.lang = "")
          => <<Result'.source, Result'.language>> = FourStepChoice(info[1], Langs(req), TRUE)]_vars

(* C8: when the human bucket holds the requested language and "en", a        *)
(* platform-stage result is the requested language's human track.            *)
C8_RequestedLanguageFirst ==
    [][(/\ pc = "ytdlp_download" /\ Succeeded'
        /\ req.lang # ""
        /\ Present(info[1].subtitles, req.lang)
        /\ Present(info[1].subtitles, "en"))
          => (Result'.language = req.lang /\ Result'.source = "human_captions")]_vars

(* C9 as claimed: a request whose platform manifest fetch failed and whose   *)
(* captions-API stage obtained a human transcript ends in SUCCESS with       *)
(* source "human_captions".                                                  *)
C9_Original ==
    (Done /\ ManifestFetchFailed /\ CaptionsServedHuman)
        => (Succeeded /\ Result.source = "human_captions")

(* C9 as amended: after a failed platform manifest fetch the captions-API    *)
(* stage is always attempted, and when it obtains a human transcript the     *)
(* request ends in SUCCESS, with source "human_captions" in discovery mode   *)
(* and source "unknown" in direct mode.                                      *)
C9_Fallthrough ==
    (Done /\ ManifestFetchFailed)
        => /\ CallsOf(1) # {}
           /\ CaptionsServedHuman =>
                 /\ Succeeded
                 /\ Result.source = IF DiscoveryMode THEN "human_captions" ELSE "unknown"

C9_Witness ==
    /\ Done /\ ManifestFetchFailed /\ CaptionsServedHuman /\ DiscoveryMode
    /\ Succeeded /\ Result.source = "human_captions"

BothKindsSeen == seen # <<>> /\ seen[1].human /\ seen[1].auto

(* C10 as claimed: with auto captions permitted and a manifest holding both  *)
(* human and auto tracks, a successful result has source "human_captions".   *)
C10_Original ==
    (Succeeded /\ req.allow_auto_captions /\ BothKindsSeen)
        => Result.source = "human_captions"

(* C10 as amended: with auto captions permitted and a manifest holding both  *)
(* a human and an auto track with a locator, a result produced by the        *)
(* platform-subtitle stage has source "human_captions", never                *)
(* "auto_captions".                                                          *)
C10_PlatformPrefersHuman ==
    (Succeeded /\ req.allow_auto_captions /\ BothKindsSeen /\ ResultStage = 0)
        => Result.source = "human_captions"

C10_Witness ==
    /\ Succeeded /\ req.allow_auto_captions /\ BothKindsSeen /\ ResultStage = 0
    /\ Result.source = "human_captions"

-----------------------------------------------------------------------------
\* the outcomes the contract admits
C11_Outcomes == {200, 400, 401, 404, 500}

\* how far the handler has come: its position, and inside the direct-mode
\* language loop the index of the language
C11_Rank ==
    LET at == CASE pc = "ensure_key" -> 0
                [] pc = "resolve" -> 1
                [] pc = "ytdlp_extract" -> 2
                [] pc = "ytdlp_download" -> 3
                [] pc = "yta_start" -> 4
                [] pc \in {"yta_translate", "yta_direct"} -> 5
                [] pc \in {"yta_fetch", "yta_direct_any"} -> 6
                [] pc = "audio_url" -> 7
                [] pc = "audio_download" -> 8
                [] pc = "whisper" -> 9
                [] OTHER -> 10
    IN  10 * at + lang_i

(* C11: every request reaches a terminal outcome, and exactly one: a 200      *)
(* carrying a result, a 400, a 401, a 404 carrying the diagnostic text of the *)
(* two notes, or a 500.  The handler is never stuck before its answer, every  *)
(* step takes it strictly further along a bounded scale (so no run loops),    *)
(* nothing is answered before the end, and the answer never changes.          *)
C11_OneTerminalOutcome ==
    /\ [](Done \/ ENABLED Next)
    /\ [](Done <=> response # <<>>)
    /\ [](Done => /\ response.status \in C11_Outcomes
                  /\ response.status = 200 <=> response.result # <<>>
                  /\ response.status = 404 =>
                        /\ response.detail.msg # ""
                        /\ response.detail.last_error # <<>>
                        /\ response.detail.whisper_error # <<>>)
    /\ [][/\ C11_Rank' > C11_Rank
          /\ C11_Rank' <= 100
          /\ response # <<>> => response' = response]_vars

\* a request that went through all three stages, the direct-mode language loop
\* included, and was answered 404
C11_Witness ==
    /\ Done
    /\ response.status = 404
    /\ StagesAttempted = {0, 1, 2}
    /\ Cardinality(CallsOf(1)) > 2

-----------------------------------------------------------------------------
\* the errors of the model that no stage names in its taxonomy: the code trips
\* over a collaborator's answer (None where a dict is expected, lines 118, 165;
\* items without .get, line 361)
C12_Unexpected == {"AttributeError"}

\* a stage has raised an error outside the taxonomy
C12_UnexpectedRaised ==
    \/ last_error # NoError /\ last_error[2] \in C12_Unexpected
    \/ /\ response # <<>>
       /\ response.detail.whisper_error # <<>>
       /\ response.detail.whisper_error[1] \in C12_Unexpected

(* C12: once a stage has raised an error outside the taxonomy, the request is *)
(* over with a 500; the error is not noted as a miss and no later stage runs. *)
C12_UnexpectedErrorIs500 ==
    C12_UnexpectedRaised => Done /\ response.status = 500

-----------------------------------------------------------------------------
\* the translation attempts recorded in a call log
C13_Translations(log) == {i \in 1..Len(log) : log[i].op = "translate"}

\* discovery mode has just selected a transcript (it is in transcript')
C13_Selected == pc = "yta_start" /\ pc' \in {"yta_translate", "yta_fetch"}

(* C13: in discovery mode the selected transcript is translated exactly when  *)
(* translate_to is set and differs from the language of the selected          *)
(* transcript; the attempt, failed or not, is followed by the fetch and       *)
(* records no miss; a result has translated = true exactly when it comes from *)
(* discovery mode after a translation that succeeded, and translated = false  *)
(* in every other stage and mode.                                             *)
C13_TranslationRule ==
    /\ [][C13_Selected =>
             (pc' = "yta_translate" <=>
                 /\ req.translate_to # ""
                 /\ req.translate_to # transcript'[1].language_code)]_vars
    /\ [][C13_Translations(calls') # C13_Translations(calls) <=> pc = "yta_translate"]_vars
    /\ [][pc = "yta_translate" =>
             /\ pc' = "yta_fetch"
             /\ last_error' = last_error
             /\ response' = response]_vars
    /\ [](Cardinality(C13_Translations(calls)) <= 1)
    /\ [](Succeeded =>
             (Result.translated <=>
                 /\ ResultStage = 1
                 /\ DiscoveryMode
                 /\ \E i \in C13_Translations(calls) : calls[i].err = ""))

\* a discovery-mode result served after a translation that succeeded
C13_Witness ==
    /\ Succeeded
    /\ ResultStage = 1
    /\ DiscoveryMode
    /\ Result.translated
    /\ Result.language = req.translate_to
    /\ \E i \in C13_Translations(calls) : calls[i].err = ""

-----------------------------------------------------------------------------
\* a valid VideoId: exactly 11 characters of letters, digits, '_' and '-'
C14_ValidVideoId(s) == Len(s) = IdLen /\ \A k \in 1..Len(s) : s[k] \in IdChars

(* C14: the video id handed to a stage, and the one a result reports, is a    *)
(* valid VideoId; an authenticated request whose video_id field is given but  *)
(* is not a valid VideoId is answered 400 before any stage has made a call.   *)
C14_OnlyValidVideoIds ==
    /\ calls # <<>> => C14_ValidVideoId(vid)
    /\ Succeeded => C14_ValidVideoId(Result.video_id)
    /\ (Done /\ req.x_api_key = EXPECTED_API_KEY
          /\ req.video_id # <<>> /\ ~C14_ValidVideoId(req.video_id))
         => response.status = 400 /\ calls = <<>>

-----------------------------------------------------------------------------
\* the end of segment i of a result: start + duration
C15_End(r, i) == r.segments[i].start + r.segments[i].duration

(* C15: approx_runtime_seconds of a result is 0 when the result has no        *)
(* segments; otherwise it is the end (start + duration) of one of its         *)
(* segments and no segment ends later.  A Whisper result, whose one segment   *)
(* starts at 0 and lasts 0, reports 0.                                        *)
C15_ApproxRuntimeIsLatestEnd ==
    Succeeded =>
        LET r == Result
            n == Len(r.segments)
        IN /\ n = 0 => r.approx_runtime_seconds = 0
           /\ n > 0 =>
                /\ \E i \in 1..n : r.approx_runtime_seconds = C15_End(r, i)
                /\ \A i \in 1..n : C15_End(r, i) <= r.approx_runtime_seconds
           /\ r.source = "whisper_transcription" =>
                n = 1 /\ r.approx_runtime_seconds = 0

\* a result of two segments whose latest end is not the latest start
C15_Witness ==
    /\ Succeeded
    /\ Len(Result.segments) = 2
    /\ Result.approx_runtime_seconds = 12
    /\ Result.segments[2].start = 10

-----------------------------------------------------------------------------
\* the track downloads recorded in a call log
C16_Downloads(log) == {i \in 1..Len(log) : log[i].op = "track_get"}

\* this step has issued a track download that failed
C16_DownloadFailed ==
    /\ Len(calls') = Len(calls) + 1
    /\ calls'[Len(calls')].op = "track_get"
    /\ calls'[Len(calls')].err # ""

(* C16: the platform stage issues at most one track download per request.    *)
(* It issues one exactly when the manifest holds a track with a locator, and *)
(* when that download fails the whole stage is a miss: the error is noted,   *)
(* nothing is answered, the captions-API stage is next and no other track,   *)
(* language or bucket is downloaded.                                         *)
C16_AtMostOneDownload ==
    /\ [](Cardinality(C16_Downloads(calls)) <= 1)
    /\ [][pc = "ytdlp_download" =>
             (C16_Downloads(calls') # {} <=> seen[1].human \/ seen[1].auto)]_vars
    /\ [][C16_DownloadFailed =>
             /\ pc' = "yta_start"
             /\ response' = <<>>
             /\ last_error' = <<"yt-dlp subtitles", calls'[Len(calls')].err>>]_vars
    /\ [][pc # "ytdlp_download" => C16_Downloads(calls') = C16_Downloads(calls)]_vars

\* a request whose one download failed, although the manifest held a human and
\* an auto track with a locator, and which went on to the later stages
C16_Witness ==
    /\ Done
    /\ BothKindsSeen
    /\ \E i \in C16_Downloads(calls) : calls[i].err # ""
    /\ Cardinality(C16_Downloads(calls)) = 1
    /\ StagesAttempted = {0, 1, 2}

-----------------------------------------------------------------------------
\* the kind of the transcript whose items the last call served
C17_ServedKind == calls[Len(calls)].kind

(* C17: a result of the captions-API stage in discovery mode reports          *)
(* "human_captions" exactly when the transcript it fetched is manually        *)
(* created and "auto_captions" exactly when it is generated, whichever of the *)
(* four selection steps found the transcript.                                 *)
C17_SourceMatchesKind ==
    (Succeeded /\ ResultStage = 1 /\ DiscoveryMode) =>
        /\ Result.source \in {"human_captions", "auto_captions"}
        /\ Result.source = "human_captions" <=> C17_ServedKind = "manual"
        /\ Result.source = "auto_captions" <=> C17_ServedKind = "generated"

\* the any-language step served a manually created transcript after the
\* preferred-language search had already turned to generated transcripts
C17_Witness ==
    /\ Succeeded /\ ResultStage = 1 /\ DiscoveryMode
    /\ req.allow_auto_captions
    /\ req.lang = ""
    /\ req.translate_to = ""
    /\ Result.language = "fr"
    /\ Result.source = "human_captions"
    /\ C17_ServedKind = "manual"

-----------------------------------------------------------------------------
\* the cookie files on local storage
C18_CookieFiles == {f \in files : f.kind = "cookies"}

(* C18: when a request is over, no cookie file decoded from the environment   *)
(* is left on local storage by its manifest and media-format lookups.         *)
C18_NoCookieFileLeft == Done => C18_CookieFiles = {}

-----------------------------------------------------------------------------
\* the video a reference handed to a collaborator denotes: the id found in a
\* url, and the reference itself when it is a bare id
C19_Denotes(ref) == IF extract_video_id(ref) # <<>> THEN extract_video_id(ref) ELSE ref

\* the request's fields, where given, are well formed: the url holds a video
\* id and video_id is a valid VideoId
C19_WellFormed ==
    /\ req.url # <<>> => extract_video_id(req.url) # <<>>
    /\ req.video_id # <<>> => C14_ValidVideoId(req.video_id)

(* C19: every reference a stage hands to a collaborator denotes the one       *)
(* video the request resolved to, which is also the video_id a result         *)
(* reports, whether the request gave url, video_id or both.  Stated for       *)
(* requests whose fields are well formed.                                     *)
C19_OneVideoPerRequest ==
    C19_WellFormed =>
        /\ \A i \in 1..Len(calls) :
              calls[i].target # <<>> => C19_Denotes(calls[i].target) = vid
        /\ Succeeded => Result.video_id = vid

-----------------------------------------------------------------------------
\* the platform stage hands over to the captions-API stage in this step
C20_PlatformAdvances == pc = "ytdlp_download" /\ pc' = "yta_start"

\* the platform stage's download was served
C20_DownloadServed == \E i \in CallsOf(0) : calls[i].op = "track_get" /\ calls[i].err = ""

(* C20: a result of the platform stage has at least one segment, and a result *)
(* without segments comes from the captions-API stage.  When the platform     *)
(* stage hands over, nothing has been answered; when it does so because no    *)
(* track was found (no download issued) no note is recorded for it, and a     *)
(* note recorded after a download that was served names the parse error, so   *)
(* a track that normalizes to zero segments leaves no note either.            *)
C20_PlatformResultHasSegments ==
    /\ []((Succeeded /\ ResultStage = 0) => Result.segments # <<>>)
    /\ []((Succeeded /\ Result.segments = <<>>) => ResultStage = 1)
    /\ [][C20_PlatformAdvances =>
             /\ response' = <<>>
             /\ calls' = calls => last_error' = NoError
             /\ (calls' # calls /\ calls'[Len(calls')].err = "" /\ last_error' # NoError)
                   => last_error' = <<"yt-dlp subtitles", "MalformedFileError">>]_vars

\* the platform stage's download was served and gave no segments: no note was
\* recorded, the captions-API stage ran and answered a result without segments
C20_Witness ==
    /\ Succeeded
    /\ ResultStage = 1
    /\ Result.segments = <<>>
    /\ C20_DownloadServed
    /\ last_error = NoError

=============================================================================
